---- MODULE Spec2Model ----
(***************************************************************************)
(* A model of the rainbow-net message codec (lib/rnet_crypto.py): the      *)
(* digit-group text codec, the (255,127) block coder, the hybrid cipher    *)
(* and the encode/decode pipeline that composes them.                      *)
(*                                                                         *)
(* Byte strings are sequences of integers in 0..255.  Text is a sequence   *)
(* of one-character strings.  A call that can raise returns a record       *)
(* [err, val]: err = "none" and val the returned value, or err the name of *)
(* the exception raised and val = <<>> (nothing is returned).              *)
(***************************************************************************)
EXTENDS Integers, Sequences, FiniteSets, TLC

VARIABLES
    \* a caller of the digit-group codec (numencode / numdecode)
    npc,        \* "start", "encoded", "typed", "decoded"
    ndata,      \* the byte string given to numencode
    ntext,      \* the text given to numdecode
    nout,       \* what numdecode returned or raised
    \* a caller of the block coder (protect / getprotected) and the channel
    rpc,        \* "start", "protected", "altered", "decoded"
    chunk,      \* the chunk given to protect
    sent,       \* the codeword protect returned
    recv,       \* the word handed to getprotected
    rout,       \* what getprotected returned or raised
    \* a caller of the cipher and of the whole codec
    pc,         \* "start", "encrypted", "decrypted", "encoded", "decoded"
    mdata,      \* the plaintext
    mpub,       \* the public key given to encrypt / encode
    mpriv,      \* the private key given to decrypt / decode
    mcipher,    \* what encrypt returned
    mtext,      \* what encode returned
    mres,       \* what decrypt / decode returned or raised
    mtrace,     \* the stage calls made by the last encode / decode / chunks call
    mharm,      \* how the ciphertext or the text was damaged on its way
    \* the callers of the password cipher (rnet_bf.encrypt / rnet_bf.decrypt)
    blog,       \* the calls made so far: operation, password, input, output
    bused,      \* bytes processed by the calls made so far
    \* workers that run protect / getprotected for the chunks of one message
    wpc,        \* "idle", "encode", "decode", "encode_joined", "decode_joined"
    wjobs,      \* the chunks (or codewords) of the message, in order
    wstep,      \* per job: "todo", "built", "fed", "done"
    wcoder,     \* per coder object: the symbols it holds
    wout,       \* per job: what the call returned or raised
    wres,       \* the results put together in the order of the jobs
    \* a caller that keeps one crypto object and one key pair over many calls
    cself,      \* the attributes of the crypto object
    ckeys,      \* the caller's key material
    clog,       \* the calls made so far: method, arguments, result
    \* a key manager (rnet_rsa.RSA)
    pub_key,    \* RSA.pub_key
    priv_key,   \* RSA.priv_key
    klog,       \* the calls made so far and how they ended
    \* the signal handler of the application framework
    hooks,      \* the callbacks registered on the 'signal' hook, in run order
    slog,       \* the callbacks run for the last signal, with their arguments
    sexc        \* what left the handler at the last signal

numVars == <<npc, ndata, ntext, nout>>
rsVars == <<rpc, chunk, sent, recv, rout>>
msgVars == <<pc, mdata, mpub, mpriv, mcipher, mtext, mres, mtrace, mharm>>
bfVars == <<blog, bused>>
parVars == <<wpc, wjobs, wstep, wcoder, wout, wres>>
objVars == <<cself, ckeys, clog>>
kmVars == <<pub_key, priv_key, klog>>
sigVars == <<hooks, slog, sexc>>
vars == <<npc, ndata, ntext, nout, rpc, chunk, sent, recv, rout,
          pc, mdata, mpub, mpriv, mcipher, mtext, mres, mtrace, mharm,
          blog, bused, wpc, wjobs, wstep, wcoder, wout, wres,
          cself, ckeys, clog, pub_key, priv_key, klog, hooks, slog, sexc>>

(***************************************************************************)
(* Bounds of the model.                                                    *)
(***************************************************************************)
\* longest byte string handed to numencode on its own
MaxLen == 23
\* most tokens of a hand-typed text
MaxTokens == 2
\* longest short plaintext
MaxPlain == 5
\* length of the long plaintexts, whose compressed form spans two chunks
LongLen == 44

(***************************************************************************)
(* Generic helpers.                                                        *)
(***************************************************************************)
\* Concatenation of the sequences f[lo], ..., f[hi] (balanced, so that the
\* evaluation depth stays logarithmic in hi - lo).
RECURSIVE Concat(_, _, _)
Concat(f, lo, hi) ==
    IF lo > hi THEN <<>>
    ELSE IF lo = hi THEN f[lo]
    ELSE LET mid == (lo + hi) \div 2
         IN  Concat(f, lo, mid) \o Concat(f, mid + 1, hi)

Flatten(f) == Concat(f, 1, Len(f))

ByteVals == {0, 65, 255}
Steps == {0, 1, 86}

\* len bytes: first, first + step, ... (mod 256)
Ramp(len, first, step) == [i \in 1..len |-> (first + (i - 1) * step) % 256]

\* Python's None
None == [kind |-> "None"]

Ok(v) == [err |-> "none", val |-> v]
Raise(e) == [err |-> e, val |-> <<>>]

(***************************************************************************)
(* Python primitives used by numencode / numdecode.                        *)
(***************************************************************************)
DigitChars == <<"0", "1", "2", "3", "4", "5", "6", "7", "8", "9">>
DigitSet == {DigitChars[i] : i \in 1..10}
DigitVal(ch) == (CHOOSE i \in 1..10 : DigitChars[i] = ch) - 1

\* "%d" % n: no zero padding
FmtD(n) ==
    IF n >= 100 THEN <<DigitChars[((n \div 100) % 10) + 1],
                       DigitChars[((n \div 10) % 10) + 1],
                       DigitChars[(n % 10) + 1]>>
    ELSE IF n >= 10 THEN <<DigitChars[((n \div 10) % 10) + 1], DigitChars[(n % 10) + 1]>>
    ELSE <<DigitChars[(n % 10) + 1]>>

\* "%03d" % n for 0 <= n: zero-padded to at least three digits
Fmt03d(n) ==
    LET lead == IF n >= 1000 THEN <<DigitChars[((n \div 1000) % 10) + 1]>> ELSE <<>>
    IN  lead \o <<DigitChars[((n \div 100) % 10) + 1],
                  DigitChars[((n \div 10) % 10) + 1],
                  DigitChars[(n % 10) + 1]>>

\* str.strip(): the characters Python 2 treats as whitespace
Whitespace == {" ", "\n", "\t", "\r"}

\* s.strip()
Strip(s) ==
    LET keep == {i \in 1..Len(s) : s[i] \notin Whitespace}
    IN  IF keep = {} THEN <<>>
        ELSE LET lo == CHOOSE i \in keep : \A j \in keep : i <= j
                 hi == CHOOSE i \in keep : \A j \in keep : j <= i
             IN  SubSeq(s, lo, hi)

\* s.split(sep): the pieces between occurrences of the one-character separator,
\* empty pieces included; "".split(sep) is [""]
RECURSIVE SplitRange(_, _, _, _)
SplitRange(s, sep, lo, hi) ==
    IF lo > hi THEN << <<>> >>
    ELSE IF lo = hi THEN (IF s[lo] = sep THEN << <<>>, <<>> >> ELSE << <<s[lo]>> >>)
    ELSE LET mid == (lo + hi) \div 2
             l == SplitRange(s, sep, lo, mid)
             r == SplitRange(s, sep, mid + 1, hi)
         IN  SubSeq(l, 1, Len(l) - 1) \o << l[Len(l)] \o r[1] >> \o Tail(r)

Split(s, sep) == SplitRange(s, sep, 1, Len(s))

\* int(n) accepts an optional sign followed by one or more decimal digits
\* (surrounding whitespace is already stripped by the caller)
IsSign(ch) == ch \in {"+", "-"}
IntDigits(n) == IF Len(n) > 0 /\ IsSign(n[1]) THEN Tail(n) ELSE n
IntAccepts(n) ==
    /\ Len(IntDigits(n)) > 0
    /\ \A i \in 1..Len(IntDigits(n)) : IntDigits(n)[i] \in DigitSet

\* the digits without their leading zeros
Significant(d) ==
    LET keep == {i \in 1..Len(d) : d[i] # "0"}
    IN  IF keep = {} THEN <<>>
        ELSE SubSeq(d, CHOOSE i \in keep : \A j \in keep : i <= j, Len(d))

RECURSIVE DecimalValue(_, _)
DecimalValue(d, i) ==
    IF i = 0 THEN 0 ELSE 10 * DecimalValue(d, i - 1) + DigitVal(d[i])

\* int(n) of an accepted n with at most nine significant digits
IntValue(n) ==
    LET d == Significant(IntDigits(n))
        v == DecimalValue(d, Len(d))
    IN  IF n[1] = "-" THEN 0 - v ELSE v

\* int(n) is a Python long beyond the machine integer chr() converts its
\* argument to (more than 18 significant digits: beyond a 64-bit C long)
BeyondMachineInt(n) == Len(Significant(IntDigits(n))) > 18

\* what chr(int(n)) raises for a stripped piece n: int() raises ValueError on
\* an invalid literal; chr() raises OverflowError when the argument does not
\* fit a machine integer and ValueError when it is not in range(256)
PieceError(n) ==
    IF ~IntAccepts(n) THEN "ValueError"
    ELSE IF BeyondMachineInt(n) THEN "OverflowError"
    ELSE IF Len(Significant(IntDigits(n))) > 3 THEN "ValueError"
    ELSE IF IntValue(n) \notin 0..255 THEN "ValueError"
    ELSE "none"

(***************************************************************************)
(* crypto.numencode / crypto.numdecode                                     *)
(***************************************************************************)
\* the counter c is reset when it exceeds this value
WrapCount == 10

\* value of the counter c after the i-th byte has been appended
CounterAfter(i) == i % (WrapCount + 1)

\* the line break written in place of the space
NumEncodeWrapLost(data, i) ==
    Fmt03d(data[i]) \o (IF CounterAfter(i) = 0 THEN <<"\n">> ELSE <<" ">>)

\* what the loop body appends for the i-th byte: "%03d " and, when the counter
\* has passed WrapCount, a line break

NumEncodeStep(data, i) ==
    Fmt03d(data[i]) \o <<" ">> \o (IF CounterAfter(i) = 0 THEN <<"\n">> ELSE <<>>)

numencode(data) ==
    Flatten([i \in 1..Len(data) |-> NumEncodeStep(data, i)]) \o <<"\n">>

\* the stripped pieces of data.split(" ")
NumPieces(data) ==
    LET nums == Split(data, " ")
    IN  [i \in 1..Len(nums) |-> Strip(nums[i])]

\* pieces that do not convert are skipped instead of raising
numdecodeSkipsBad(data) ==
    LET ps == NumPieces(data)
    IN  Ok(Flatten([i \in 1..Len(ps) |->
            IF ps[i] = <<>> \/ PieceError(ps[i]) # "none" THEN <<>>
            ELSE <<IntValue(ps[i])>>]))

numdecode(data) ==
    LET ps == NumPieces(data)
        bad == {i \in 1..Len(ps) : ps[i] # <<>> /\ PieceError(ps[i]) # "none"}
    IN  IF bad # {}
        THEN Raise(PieceError(ps[CHOOSE i \in bad : \A j \in bad : i <= j]))
        ELSE Ok(Flatten([i \in 1..Len(ps) |->
                 IF ps[i] = <<>> THEN <<>> ELSE <<IntValue(ps[i])>>]))

(***************************************************************************)
(* The block coder behind crypto.protect / crypto.getprotected:            *)
(* RSCoder(255, 127) of the rs module.  The module is not part of the      *)
(* sources at hand, so the coder is modelled from its description: a       *)
(* systematic code over a 256-symbol alphabet whose codeword is the        *)
(* RS_K data symbols followed by RS_N - RS_K parity symbols computed from  *)
(* them, decoded to the nearest codeword within RSCorrectable symbols.     *)
(* A chunk shorter than RS_K symbols is left-padded with null symbols to   *)
(* fill the data positions, and the decoder strips leading null symbols.   *)
(* The parity symbols are a stand-in for the Reed-Solomon remainder: they  *)
(* are spread from two digests of the data symbols so that no word of the  *)
(* model lies within RSCorrectable symbols of two codewords (MinDistance). *)
(***************************************************************************)
RS_N == 255
RS_K == 127
RSCorrectable == (RS_N - RS_K) \div 2

RECURSIVE SumRange(_, _, _)
SumRange(f, lo, hi) ==
    IF lo > hi THEN 0
    ELSE IF lo = hi THEN f[lo]
    ELSE LET mid == (lo + hi) \div 2
         IN  SumRange(f, lo, mid) + SumRange(f, mid + 1, hi)

\* the RS_K data symbols of a chunk: null symbols, then the chunk
RSPad(data) ==
    [i \in 1..RS_K |->
        IF i <= RS_K - Len(data) THEN 0 ELSE data[i - (RS_K - Len(data))]]

\* the chunk read back from RS_K data symbols: leading null symbols dropped
RSStrip(msg) ==
    LET keep == {i \in 1..Len(msg) : msg[i] # 0}
    IN  IF keep = {} THEN <<>>
        ELSE SubSeq(msg, CHOOSE i \in keep : \A j \in keep : i <= j, Len(msg))

\* the parity symbols are drawn from a prime field
RSField == 251

RSDigest(msg) ==
    SumRange([i \in 1..Len(msg) |-> (i * i + 1) * msg[i]], 1, Len(msg)) % RSField

RSSlope(msg) ==
    SumRange([i \in 1..Len(msg) |-> (i + 3) * msg[i]], 1, Len(msg)) % RSField

\* the parity symbols spread from the two digests
RSSpread(a, b) == [j \in 1..(RS_N - RS_K) |-> (a + j * b) % RSField]

\* the parity symbols of RS_K data symbols
RSParity(msg) == RSSpread(RSDigest(msg), RSSlope(msg))

\* the codeword of RS_K data symbols
RSCodeword(msg) == msg \o RSParity(msg)

\* RSCoder.encode(data)
RSEncode(data) == RSCodeword(RSPad(data))

\* number of positions where two words of equal length differ
Distance(a, b) == Cardinality({i \in 1..Len(a) : a[i] # b[i]})

\* chunks whose codewords the model puts on the channel
ChunkLens == {0, 1, 2, 11, RS_K - 1, RS_K}
SampleChunks == {Ramp(l, f, 3) : l \in ChunkLens, f \in ByteVals}
\* chunks that the encode call of the message at hand gave to protect
SentChunks ==
    {mtrace[i].given : i \in {j \in 1..Len(mtrace) : mtrace[j].stage = "protect"}}

\* the data symbols of the codewords the decoder's search goes over: the
\* codewords that the model has put on a channel
Codebook == {RSPad(c) : c \in SampleChunks \cup SentChunks}

\* data symbols whose codeword lies within RSCorrectable symbols of the word:
\* the data symbols the word itself carries, or those of a known codeword
RSNear(word) ==
    {m \in Codebook \cup {SubSeq(word, 1, RS_K)} :
        /\ Distance(m, SubSeq(word, 1, RS_K)) <= RSCorrectable
        /\ Distance(RSCodeword(m), word) <= RSCorrectable}

\* RSCoder.decode(r)
RSDecode(r) ==
    IF Len(r) # RS_N THEN Raise("UncorrectableBlock")
    ELSE IF RSNear(r) = {} THEN Raise("UncorrectableBlock")
    ELSE Ok(RSStrip(CHOOSE m \in RSNear(r) : TRUE))

\* the data symbols returned without their parity symbols
protectDataOnly(data) == RSPad(data)

\* c = RSCoder(255, 127); return c.encode(data)
protect(data) == RSEncode(data)

\* the data symbols of the word taken as they are, nothing corrected or checked
getprotectedUnchecked(data) == Ok(RSStrip(SubSeq(data, 1, RS_K)))

\* c = RSCoder(255, 127); return c.decode(data)
getprotected(data) == RSDecode(data)

(***************************************************************************)
(* crypto.compress / crypto.uncompress: zlib.  The compressed stream is    *)
(* modelled as a two-byte header, the data and a one-byte check value, and *)
(* decompression verifies all three.                                       *)
(***************************************************************************)
ZHeader == <<120, 156>>
\* position-dependent, as the Adler-32 sums of zlib are
ZCheck(data) ==
    (1 + Len(data) + SumRange(data, 1, Len(data))
       + SumRange([i \in 1..Len(data) |-> (Len(data) - i + 1) * data[i]], 1, Len(data)))
        % 256

compress(data) == ZHeader \o data \o <<ZCheck(data)>>

uncompress(data) ==
    LET n == Len(data)
    IN  IF n < 3 THEN Raise("zlib.error")
        ELSE IF SubSeq(data, 1, 2) # ZHeader THEN Raise("zlib.error")
        ELSE IF data[n] # ZCheck(SubSeq(data, 3, n - 1)) THEN Raise("zlib.error")
        ELSE Ok(SubSeq(data, 3, n - 1))

(***************************************************************************)
(* The hybrid cipher behind crypto.encrypt / crypto.decrypt:               *)
(* rsa.bigfile.encrypt_bigfile / decrypt_bigfile.  The rsa package is not  *)
(* part of the sources at hand, so the cipher is modelled from its         *)
(* description: a version byte followed, for every block of the plaintext, *)
(* by a length-prefixed key block (the session key under the public key)   *)
(* and a length-prefixed data block (the plaintext block under the session *)
(* key).  The arithmetic is a stand-in that keeps what the description     *)
(* states: only the private key of the same pair passes the padding check  *)
(* of a key block.                                                         *)
(***************************************************************************)
\* number of key pairs (rsa.newkeys) of the model
NumKeyPairs == 2
\* plaintext bytes that fit one asymmetric block
BlockBytes == 2
\* number of session keys the cipher may draw
NumSessionKeys == 2

KeyPairs == 1..NumKeyPairs
\* the session keys the cipher may draw: a sample of the byte values
SessionStride == 46
SessionKeys == {1 + SessionStride * (k - 1) : k \in 1..NumSessionKeys}
PubKey(k) == [kind |-> "public", pair |-> k]
PrivKey(k) == [kind |-> "private", pair |-> k]

PadMark == 2
StreamVersion == 1

Unmask(v, m) == ((v + 256) - (m % 256)) % 256

\* the session key under a public key: the padding mark, masked by the pair
\* and bound to the key, and the masked key
AsymEncrypt(m, pub) ==
    <<(PadMark + 17 * pub.pair + 7 * m) % 256, (m + 29 * pub.pair) % 256>>

\* the padding check fails unless the private key is of the same pair and
\* the key block is the one that was written
AsymDecrypt(c, priv) ==
    IF Len(c) # 2 THEN Raise("DecryptionError")
    ELSE LET key == Unmask(c[2], 29 * priv.pair)
         IN  IF Unmask(c[1], 17 * priv.pair + 7 * key) # PadMark
             THEN Raise("DecryptionError")
             ELSE Ok(key)

\* a stream cipher keyed by the session key
SymEncrypt(block, s) == [i \in 1..Len(block) |-> (block[i] + s + i) % 256]
SymDecrypt(block, s) == [i \in 1..Len(block) |-> Unmask(block[i], s + i)]

\* only the slices of full length are yielded
chunksFullOnly(data, n) ==
    [k \in 1..(Len(data) \div n) |-> SubSeq(data, (k - 1) * n + 1, k * n)]

\* data[start:start+n] for every start in range(0, len(data), n)
chunks(data, n) ==
    [k \in 1..((Len(data) + n - 1) \div n) |->
        SubSeq(data, (k - 1) * n + 1,
               IF k * n <= Len(data) THEN k * n ELSE Len(data))]

\* one [key block][data block] pair of the stream
CipherPair(block, pub, s) ==
    LET kb == AsymEncrypt(s, pub)
        db == SymEncrypt(block, s)
    IN  <<Len(kb)>> \o kb \o <<Len(db)>> \o db

\* bigfile.encrypt_bigfile(infile, outfile, key), s the session key drawn
EncryptBigfile(data, pub, s) ==
    LET blocks == chunks(data, BlockBytes)
    IN  <<StreamVersion>> \o
        Flatten([k \in 1..Len(blocks) |-> CipherPair(blocks[k], pub, s)])

\* the pairs of the stream from position i on, decrypted and concatenated
RECURSIVE DecryptPairs(_, _, _)
DecryptPairs(data, i, priv) ==
    IF i > Len(data) THEN Ok(<<>>)
    ELSE LET kl == data[i]
             kend == i + kl
         IN  IF kend + 1 > Len(data) THEN Raise("DecryptionError")
             ELSE LET key == AsymDecrypt(SubSeq(data, i + 1, kend), priv)
                      dl == data[kend + 1]
                      dend == kend + 1 + dl
                  IN  IF key.err # "none" THEN key
                      ELSE IF dend > Len(data) THEN Raise("DecryptionError")
                      ELSE LET rest == DecryptPairs(data, dend + 1, priv)
                           IN  IF rest.err # "none" THEN rest
                               ELSE Ok(SymDecrypt(SubSeq(data, kend + 2, dend),
                                                  key.val) \o rest.val)

\* bigfile.decrypt_bigfile(infile, outfile, key)
DecryptBigfile(data, priv) ==
    IF Len(data) = 0 \/ data[1] # StreamVersion THEN Raise("DecryptionError")
    ELSE DecryptPairs(data, 2, priv)

(***************************************************************************)
(* crypto.encrypt / crypto.decrypt / crypto.encode / crypto.decode         *)
(***************************************************************************)
\* A unicode text is a sequence of code points, each held as UBase plus the
\* code point, so that it is told from a byte string (type(data) == type(u"")).
UBase == 2097152
UChar(cp) == UBase + cp
IsUnicode(data) == Len(data) > 0 /\ data[1] >= UBase

\* the UTF-8 bytes of one code point
Utf8Char(cp) ==
    IF cp < 128 THEN <<cp>>
    ELSE IF cp < 2048 THEN <<192 + (cp \div 64), 128 + (cp % 64)>>
    ELSE IF cp < 65536
    THEN <<224 + (cp \div 4096), 128 + ((cp \div 64) % 64), 128 + (cp % 64)>>
    ELSE <<240 + (cp \div 262144), 128 + ((cp \div 4096) % 64),
           128 + ((cp \div 64) % 64), 128 + (cp % 64)>>

\* data.encode('utf8')
Utf8(data) == Flatten([i \in 1..Len(data) |-> Utf8Char(data[i] - UBase)])

\* what encrypt writes into infile: unicode is encoded, a str is taken as it is
InfileBytes(data) == IF IsUnicode(data) THEN Utf8(data) ELSE data

\* outfile.getvalue() after encrypt_bigfile
encrypt(data, key, s) == EncryptBigfile(InfileBytes(data), key, s)

\* the input buffer returned in place of the output buffer
decryptReturnsInput(data, key) == Ok(data)

\* what decrypt_bigfile has written to outfile when it returns or raises:
\* the blocks of the pairs from position i on that were decrypted
RECURSIVE WrittenPairs(_, _, _)
WrittenPairs(data, i, priv) ==
    IF i > Len(data) \/ i + data[i] + 1 > Len(data) THEN <<>>
    ELSE LET kend == i + data[i]
             key == AsymDecrypt(SubSeq(data, i + 1, kend), priv)
             dend == kend + 1 + data[kend + 1]
         IN  IF key.err # "none" \/ dend > Len(data) THEN <<>>
             ELSE SymDecrypt(SubSeq(data, kend + 2, dend), key.val)
                      \o WrittenPairs(data, dend + 1, priv)

OutfileAfter(data, priv) ==
    IF Len(data) = 0 \/ data[1] # StreamVersion THEN <<>>
    ELSE WrittenPairs(data, 2, priv)

\* outfile.getvalue() returned although decrypt_bigfile raised
decryptKeepsWritten(data, key) ==
    [err |-> DecryptBigfile(data, key).err, val |-> OutfileAfter(data, key)]

\* outfile.getvalue() after decrypt_bigfile; an exception leaves nothing
decrypt(data, key) == DecryptBigfile(data, key)

\* chunk size of encode, block size of decode
ChunkBytes == 127
CodewordBytes == 255

\* the plaintext is compressed before it is encrypted
encodeCompressFirst(data, key, s) ==
    LET buf == encrypt(compress(InfileBytes(data)), key, s)
        cs == chunks(buf, ChunkBytes)
    IN  Flatten([k \in 1..Len(cs) |-> numencode(protect(cs[k]))])

\* the codeword of the last chunk is written first
encodeLastFirst(data, key, s) ==
    LET buf == compress(encrypt(data, key, s))
        cs == chunks(buf, ChunkBytes)
    IN  Flatten([k \in 1..Len(cs) |-> numencode(protect(cs[Len(cs) + 1 - k]))])

encode(data, key, s) ==
    LET buf == compress(encrypt(data, key, s))
        cs == chunks(buf, ChunkBytes)
    IN  Flatten([k \in 1..Len(cs) |-> numencode(protect(cs[k]))])

\* a codeword that cannot be corrected is left out and decoding goes on
decodeBestEffort(data, key) ==
    LET buf == numdecode(data)
        cs == chunks(buf.val, CodewordBytes)
        gs == [k \in 1..Len(cs) |-> getprotected(cs[k])]
        z == uncompress(Flatten([k \in 1..Len(gs) |-> gs[k].val]))
    IN  IF buf.err # "none" THEN buf
        ELSE IF z.err # "none" THEN z
        ELSE decrypt(z.val, key)

decode(data, key) ==
    LET buf == numdecode(data)
    IN  IF buf.err # "none" THEN buf
        ELSE LET cs == chunks(buf.val, CodewordBytes)
                 gs == [k \in 1..Len(cs) |-> getprotected(cs[k])]
             IN  IF \E k \in 1..Len(gs) : gs[k].err # "none"
                 THEN gs[CHOOSE k \in 1..Len(gs) :
                            /\ gs[k].err # "none"
                            /\ \A j \in 1..(k - 1) : gs[j].err = "none"]
                 ELSE LET buf2 == Flatten([k \in 1..Len(gs) |-> gs[k].val])
                          z == uncompress(buf2)
                      IN  IF z.err # "none" THEN z ELSE decrypt(z.val, key)

(***************************************************************************)
(* The stage calls of one encode / decode call, in the order they are      *)
(* made: the method called, what it was given, what it returned and the    *)
(* error it raised ("none" when it returned).                              *)
(***************************************************************************)
Stage(name, given, out, err) ==
    [stage |-> name, given |-> given, out |-> out, err |-> err]

\* the calls of encode: encrypt, compress, chunks, then protect and numencode
\* for every chunk the generator yields
EncodeTrace(data, key, s) ==
    LET c == encrypt(data, key, s)
        buf == compress(c)
        cs == chunks(buf, ChunkBytes)
    IN  << Stage("encrypt", data, c, "none"),
           Stage("compress", c, buf, "none"),
           Stage("chunks", buf, cs, "none") >>
        \o Flatten([k \in 1..Len(cs) |->
               << Stage("protect", cs[k], protect(cs[k]), "none"),
                  Stage("numencode", protect(cs[k]), numencode(protect(cs[k])),
                        "none") >>])

\* the calls of decode up to and including the first that raises
DecodeTrace(data, key) ==
    LET buf == numdecode(data)
        cs == chunks(buf.val, CodewordBytes)
        gs == [k \in 1..Len(cs) |-> getprotected(cs[k])]
        bad == {k \in 1..Len(cs) : gs[k].err # "none"}
        last == IF bad = {} THEN Len(cs)
                ELSE CHOOSE k \in bad : \A j \in bad : k <= j
        buf2 == Flatten([k \in 1..Len(gs) |-> gs[k].val])
        z == uncompress(buf2)
        d == decrypt(z.val, key)
    IN  << Stage("numdecode", data, buf.val, buf.err) >>
        \o (IF buf.err # "none" THEN <<>>
            ELSE << Stage("chunks", buf.val, cs, "none") >>
                 \o [k \in 1..last |->
                        Stage("getprotected", cs[k], gs[k].val, gs[k].err)]
                 \o (IF bad # {} THEN <<>>
                     ELSE << Stage("uncompress", buf2, z.val, z.err) >>
                          \o (IF z.err # "none" THEN <<>>
                              ELSE << Stage("decrypt", z.val, d.val, d.err) >>)))

(***************************************************************************)
(* Inputs of the digit-group codec.                                        *)
(***************************************************************************)
NumInputs == {Ramp(l, f, s) : l \in 0..MaxLen, f \in ByteVals, s \in Steps}

\* tokens a person may type: well-formed groups, out-of-range values,
\* non-numeric tokens, signed and short tokens
TypedTokens ==
    { <<"0", "0", "0">>, <<"0", "6", "5">>, <<"2", "5", "5">>,
      <<"2", "5", "6">>, <<"6", "x", "5">>,
      <<"-", "0", "1">>, <<"+", "6", "5">>,
      [i \in 1..20 |-> "9"] }

\* separators a person may type between two tokens
TypedSeps ==
    { <<" ">>, <<" ", " ">>, <<" ", "\n">>, <<"\n", " ">>, <<"\n">>, <<"\t">> }

\* what may stand before the first token
TypedLead == { <<>>, <<" ">> }

\* the typed text: lead, then every token followed by its separator
TypedText(lead, toks, seps) ==
    lead \o Flatten([i \in 1..Len(toks) |-> toks[i] \o seps[i]])

(***************************************************************************)
(* The caller of the digit-group codec.                                    *)
(***************************************************************************)
NumInit ==
    /\ npc = "start"
    /\ ndata \in NumInputs
    /\ ntext = <<>>
    /\ nout = Ok(<<>>)
    /\ rpc = "idle"
    /\ chunk = <<>>
    /\ sent = <<>>
    /\ recv = <<>>
    /\ rout = Ok(<<>>)
    /\ pc = "idle"
    /\ mdata = <<>>
    /\ mpub = PubKey(1)
    /\ mpriv = PrivKey(1)
    /\ mcipher = <<>>
    /\ mtext = <<>>
    /\ mres = Ok(<<>>)
    /\ mtrace = <<>>
    /\ mharm = "none"
    /\ blog = <<>>
    /\ bused = 0
    /\ wpc = "idle"
    /\ wjobs = <<>>
    /\ wstep = <<>>
    /\ wcoder = <<>>
    /\ wout = <<>>
    /\ wres = Ok(<<>>)
    /\ cself = {}
    /\ ckeys = [pub |-> None, priv |-> None]
    /\ clog = <<>>
    /\ pub_key = None
    /\ priv_key = None
    /\ klog = <<>>
    /\ hooks = <<>>
    /\ slog = <<>>
    /\ sexc = Ok(<<>>)

\* text = c.numencode(data)
NumEncode ==
    /\ npc = "start"
    /\ ntext' = numencode(ndata)
    /\ npc' = "encoded"
    /\ UNCHANGED <<ndata, nout, rsVars, msgVars, bfVars,
                   parVars, objVars, kmVars, sigVars>>

\* the text comes from a person typing digit groups
TypeText ==
    /\ npc = "start"
    /\ ndata = <<>>
    /\ \E n \in 0..MaxTokens :
         \E toks \in [1..n -> TypedTokens], seps \in [1..n -> TypedSeps],
            lead \in TypedLead :
             ntext' = TypedText(lead, toks, seps)
    /\ npc' = "typed"
    /\ UNCHANGED <<ndata, nout, rsVars, msgVars, bfVars,
                   parVars, objVars, kmVars, sigVars>>

\* the text is a message of crypto.encode; ndata keeps the codeword bytes
\* that encode hands to numencode, one numencode call per codeword
EncodeText ==
    /\ npc = "start"
    /\ ndata = <<>>
    /\ \E len \in {0, LongLen}, s \in SessionKeys :
         LET msg == Ramp(len, 214, 1)
             cs == chunks(compress(encrypt(msg, PubKey(1), s)), ChunkBytes)
         IN  /\ ntext' = encode(msg, PubKey(1), s)
             /\ ndata' = Flatten([k \in 1..Len(cs) |-> protect(cs[k])])
    /\ npc' = "message"
    /\ UNCHANGED <<nout, rsVars, msgVars, bfVars,
                   parVars, objVars, kmVars, sigVars>>

\* out = c.numdecode(text)
NumDecode ==
    /\ npc \in {"encoded", "typed"}
    /\ nout' = numdecode(ntext)
    /\ npc' = IF npc = "encoded" THEN "roundtrip" ELSE "decoded"
    /\ UNCHANGED <<ndata, ntext, rsVars, msgVars, bfVars,
                   parVars, objVars, kmVars, sigVars>>

(***************************************************************************)
(* The caller of the block coder, with a channel that alters symbols of    *)
(* the codeword between protect and getprotected.                          *)
(***************************************************************************)
RSInit ==
    /\ rpc = "start"
    /\ chunk \in SampleChunks
    /\ sent = <<>>
    /\ recv = <<>>
    /\ rout = Ok(<<>>)
    /\ npc = "idle"
    /\ ndata = <<>>
    /\ ntext = <<>>
    /\ nout = Ok(<<>>)
    /\ pc = "idle"
    /\ mdata = <<>>
    /\ mpub = PubKey(1)
    /\ mpriv = PrivKey(1)
    /\ mcipher = <<>>
    /\ mtext = <<>>
    /\ mres = Ok(<<>>)
    /\ mtrace = <<>>
    /\ mharm = "none"
    /\ blog = <<>>
    /\ bused = 0
    /\ wpc = "idle"
    /\ wjobs = <<>>
    /\ wstep = <<>>
    /\ wcoder = <<>>
    /\ wout = <<>>
    /\ wres = Ok(<<>>)
    /\ cself = {}
    /\ ckeys = [pub |-> None, priv |-> None]
    /\ clog = <<>>
    /\ pub_key = None
    /\ priv_key = None
    /\ klog = <<>>
    /\ hooks = <<>>
    /\ slog = <<>>
    /\ sexc = Ok(<<>>)

\* a2 = c.protect(chunk)
Protect ==
    /\ rpc = "start"
    /\ sent' = protect(chunk)
    /\ recv' = protect(chunk)
    /\ rpc' = "protected"
    /\ UNCHANGED <<chunk, rout, numVars, msgVars, bfVars,
                   parVars, objVars, kmVars, sigVars>>

BurstStarts == {1, 100, RS_K + 1, 191}
BurstLens == {1, 10, RSCorrectable, RSCorrectable + 1}
Strides == {2, 3}
Deltas == {1, 129}

\* the word with every symbol at a position of ps changed by delta
Altered(word, ps, delta) ==
    [i \in 1..Len(word) |-> IF i \in ps THEN (word[i] + delta) % 256 ELSE word[i]]

\* the channel alters a run of consecutive symbols
AlterBurst ==
    /\ rpc = "protected"
    /\ \E start \in BurstStarts, len \in BurstLens, delta \in Deltas :
         /\ start + len - 1 <= RS_N
         /\ recv' = Altered(sent, start..(start + len - 1), delta)
    /\ rpc' = "altered"
    /\ UNCHANGED <<chunk, sent, rout, numVars, msgVars, bfVars,
                   parVars, objVars, kmVars, sigVars>>

\* the channel alters symbols spread over the word
AlterSpread ==
    /\ rpc = "protected"
    /\ \E stride \in Strides, count \in BurstLens, delta \in Deltas :
         recv' = Altered(sent, {1 + k * stride : k \in 0..(count - 1)}, delta)
    /\ rpc' = "altered"
    /\ UNCHANGED <<chunk, sent, rout, numVars, msgVars, bfVars,
                   parVars, objVars, kmVars, sigVars>>

\* the channel alters the symbols in which the codeword differs from the
\* codeword of another chunk
AlterInto ==
    /\ rpc = "protected"
    /\ \E other \in SampleChunks :
         /\ protect(other) # sent
         /\ recv' = protect(other)
    /\ rpc' = "altered"
    /\ UNCHANGED <<chunk, sent, rout, numVars, msgVars, bfVars,
                   parVars, objVars, kmVars, sigVars>>

\* out = c.getprotected(a2)
GetProtected ==
    /\ rpc \in {"protected", "altered"}
    /\ rout' = getprotected(recv)
    /\ rpc' = "decoded"
    /\ UNCHANGED <<chunk, sent, recv, numVars, msgVars, bfVars,
                   parVars, objVars, kmVars, sigVars>>

(***************************************************************************)
(* The caller of the cipher and of the codec: a key pair is generated, a   *)
(* plaintext is encrypted and decrypted, or encoded and decoded.           *)
(***************************************************************************)
\* "Hello world"
HelloWorld == <<72, 101, 108, 108, 111, 32, 119, 111, 114, 108, 100>>

\* the unicode text of the demo, in Cyrillic, and a short text whose
\* characters take one, two, three and four bytes
SecretText ==
    [i \in 1..25 |->
        UChar(<<1041, 1086, 1083, 1100, 1096, 1072, 1103, 45, 1087, 1088,
                1077, 1073, 1086, 1083, 1100, 1096, 1072, 1103, 32, 1090,
                1072, 1081, 1085, 1072, 46>>[i])]
MixedText == <<UChar(65), UChar(1103), UChar(8364), UChar(128512)>>
UnicodeTexts == {SecretText, MixedText}

Plaintexts ==
    {Ramp(l, f, s) : l \in 0..MaxPlain, f \in ByteVals, s \in {1, 86}}
        \cup {Ramp(LongLen, f, 1) : f \in {65, 214}}
        \cup {HelloWorld} \cup UnicodeTexts

\* the messages the model follows over a channel that damages them
Travellers ==
    {HelloWorld, SecretText, MixedText, Ramp(LongLen, 214, 1),
     Ramp(MaxPlain, 65, 1), Ramp(1, 0, 1)}
\* those whose text is damaged
TextTravellers == {HelloWorld, SecretText, Ramp(LongLen, 214, 1)}

WireInit ==
    /\ pc = "start"
    /\ mdata \in Travellers
    /\ mpub \in {PubKey(k) : k \in KeyPairs}
    /\ mpriv \in {PrivKey(k) : k \in KeyPairs}
    /\ mcipher = <<>>
    /\ mtext = <<>>
    /\ mres = Ok(<<>>)
    /\ mtrace = <<>>
    /\ mharm = "none"
    /\ blog = <<>>
    /\ bused = 0
    /\ wpc = "idle"
    /\ wjobs = <<>>
    /\ wstep = <<>>
    /\ wcoder = <<>>
    /\ wout = <<>>
    /\ wres = Ok(<<>>)
    /\ cself = {}
    /\ ckeys = [pub |-> None, priv |-> None]
    /\ clog = <<>>
    /\ pub_key = None
    /\ priv_key = None
    /\ klog = <<>>
    /\ hooks = <<>>
    /\ slog = <<>>
    /\ sexc = Ok(<<>>)
    /\ npc = "idle"
    /\ ndata = <<>>
    /\ ntext = <<>>
    /\ nout = Ok(<<>>)
    /\ rpc = "idle"
    /\ chunk = <<>>
    /\ sent = <<>>
    /\ recv = <<>>
    /\ rout = Ok(<<>>)

Init ==
    /\ pc = "start"
    /\ mdata \in Plaintexts
    /\ mpub \in {PubKey(k) : k \in KeyPairs}
    /\ mpriv \in {PrivKey(k) : k \in KeyPairs}
    /\ mcipher = <<>>
    /\ mtext = <<>>
    /\ mres = Ok(<<>>)
    /\ mtrace = <<>>
    /\ mharm = "none"
    /\ blog = <<>>
    /\ bused = 0
    /\ wpc = "idle"
    /\ wjobs = <<>>
    /\ wstep = <<>>
    /\ wcoder = <<>>
    /\ wout = <<>>
    /\ wres = Ok(<<>>)
    /\ cself = {}
    /\ ckeys = [pub |-> None, priv |-> None]
    /\ clog = <<>>
    /\ pub_key = None
    /\ priv_key = None
    /\ klog = <<>>
    /\ hooks = <<>>
    /\ slog = <<>>
    /\ sexc = Ok(<<>>)
    /\ npc = "idle"
    /\ ndata = <<>>
    /\ ntext = <<>>
    /\ nout = Ok(<<>>)
    /\ rpc = "idle"
    /\ chunk = <<>>
    /\ sent = <<>>
    /\ recv = <<>>
    /\ rout = Ok(<<>>)

\* a3 = c.encrypt(data, pub_key)
Encrypt ==
    /\ pc = "start"
    /\ \E s \in SessionKeys : mcipher' = encrypt(mdata, mpub, s)
    /\ pc' = "encrypted"
    /\ UNCHANGED <<mdata, mpub, mpriv, mtext, mres, mtrace, mharm,
                   numVars, rsVars, bfVars,
                   parVars, objVars, kmVars, sigVars>>

\* the stream is cut short inside a block: inside the first key block,
\* inside the key block of the second pair, or inside the last data block
CutPoints(stream) ==
    {3, Len(stream) - 1}
        \cup (IF Len(stream) >= 4 + BlockBytes + 5 THEN {4 + BlockBytes + 3} ELSE {})

\* positions of the stream by what they hold, for a stream of at least one
\* pair: version and length bytes, key block bytes, data block bytes
FramePositions(stream) == {1, 2, 5}
KeyPositions(stream) ==
    {3, 4} \cup (IF Len(stream) >= 4 + BlockBytes + 5
                 THEN {4 + BlockBytes + 4} ELSE {})
DataPositions(stream) == {6, Len(stream)}

\* the ciphertext is damaged on its way to the holder of the private key
HarmCipher ==
    /\ pc = "encrypted"
    /\ mpriv.pair = mpub.pair
    /\ mdata \in Travellers
    /\ \/ \E n \in CutPoints(mcipher) :
            /\ mcipher' = SubSeq(mcipher, 1, n)
            /\ mharm' = "cut"
       \/ \E i \in FramePositions(mcipher), delta \in Deltas :
            /\ mcipher' = Altered(mcipher, {i}, delta)
            /\ mharm' = "frame"
       \/ \E i \in KeyPositions(mcipher), delta \in Deltas :
            /\ mcipher' = Altered(mcipher, {i}, delta)
            /\ mharm' = "key"
       \/ \E i \in DataPositions(mcipher), delta \in Deltas :
            /\ mcipher' = Altered(mcipher, {i}, delta)
            /\ mharm' = "data"
       \/ \E s \in SessionKeys :
            /\ mcipher' = encrypt(Ramp(Len(InfileBytes(mdata)), 66, 1), mpub, s)
            /\ mcipher' # mcipher
            /\ mharm' = "swap"
    /\ pc' = "harmed"
    /\ UNCHANGED <<mdata, mpub, mpriv, mtext, mres, mtrace, numVars, rsVars, bfVars,
                   parVars, objVars, kmVars, sigVars>>

\* c.decrypt(a3, priv_key)
Decrypt ==
    /\ pc \in {"encrypted", "harmed"}
    /\ mres' = decrypt(mcipher, mpriv)
    /\ pc' = IF pc = "encrypted" THEN "decrypted" ELSE "redecrypted"
    /\ UNCHANGED <<mdata, mpub, mpriv, mcipher, mtext, mtrace, mharm,
                   numVars, rsVars, bfVars,
                   parVars, objVars, kmVars, sigVars>>

\* a4 = c.chunks(blob, 127) on a blob of its own
BlobLens ==
    {0, 1, ChunkBytes - 1, ChunkBytes, ChunkBytes + 1, 2 * ChunkBytes,
     2 * ChunkBytes + 1}
SplitBlob ==
    /\ pc = "start"
    /\ mdata = <<>>
    /\ \E len \in BlobLens :
         mtrace' = << Stage("chunks", Ramp(len, 7, 5),
                            chunks(Ramp(len, 7, 5), ChunkBytes), "none") >>
    /\ pc' = "split"
    /\ UNCHANGED <<mdata, mpub, mpriv, mcipher, mtext, mres, mharm,
                   numVars, rsVars, bfVars,
                   parVars, objVars, kmVars, sigVars>>

\* a5 = c.encode(data, pub_key)
Encode ==
    /\ pc = "start"
    /\ \E s \in SessionKeys :
         /\ mtext' = encode(mdata, mpub, s)
         /\ mtrace' = EncodeTrace(mdata, mpub, s)
    /\ pc' = "encoded"
    /\ UNCHANGED <<mdata, mpub, mpriv, mcipher, mres, mharm, numVars, rsVars, bfVars,
                   parVars, objVars, kmVars, sigVars>>

\* the codewords the text carries, and the text of a sequence of codewords
TextWords(text) == chunks(numdecode(text).val, CodewordBytes)
WordsText(ws) == Flatten([k \in 1..Len(ws) |-> numencode(ws[k])])

\* sets of symbol positions inside one codeword
TenPositions ==
    {1..10, (ChunkBytes - 6)..(ChunkBytes + 3), (CodewordBytes - 9)..CodewordBytes,
     {1 + 25 * j : j \in 0..9}}
ManyPositions ==
    {1..(RSCorrectable + 1), (RS_K - 32)..(RS_K + RSCorrectable - 32)}

\* position of the last digit of a text
LastDigit(text) ==
    CHOOSE i \in 1..Len(text) :
        /\ text[i] \in DigitSet
        /\ \A j \in (i + 1)..Len(text) : text[j] \notin DigitSet

\* numbers of characters that a text may lose at its end
CutLens == {6, 400}

\* the text is damaged on its way: symbols of one codeword are altered, a
\* token is mistyped, the last codeword is lost, the text loses tokens at
\* its end, or nothing of it arrives
HarmText ==
    /\ pc = "encoded"
    /\ mpriv.pair = mpub.pair
    /\ mdata \in TextTravellers
    /\ LET ws == TextWords(mtext)
       IN  \/ \E k \in 1..Len(ws), ps \in TenPositions :
                /\ mtext' = WordsText([ws EXCEPT ![k] = Altered(ws[k], ps, 129)])
                /\ mharm' = "ten"
           \/ \E k \in 1..Len(ws), ps \in ManyPositions :
                /\ mtext' = WordsText([ws EXCEPT ![k] = Altered(ws[k], ps, 1)])
                /\ mharm' = "many"
           \/ \E at \in {3, LastDigit(mtext)} :
                /\ mtext' = [mtext EXCEPT ![at - 1] = "x"]
                /\ mharm' = "token"
           \/ /\ mtext' = WordsText(SubSeq(ws, 1, Len(ws) - 1))
              /\ mharm' = "lost"
           \/ \E cut \in CutLens :
                /\ mtext' = SubSeq(mtext, 1, Len(mtext) - cut)
                /\ mharm' = "short"
           \/ /\ mtext' = <<>>
              /\ mharm' = "empty"
    /\ pc' = "garbled"
    /\ UNCHANGED <<mdata, mpub, mpriv, mcipher, mres, mtrace, numVars, rsVars, bfVars,
                   parVars, objVars, kmVars, sigVars>>

\* c.decode(a5, priv_key)
Decode ==
    /\ pc \in {"encoded", "garbled"}
    /\ mres' = decode(mtext, mpriv)
    /\ mtrace' = DecodeTrace(mtext, mpriv)
    /\ pc' = IF pc = "encoded" THEN "decoded" ELSE "regained"
    /\ UNCHANGED <<mdata, mpub, mpriv, mcipher, mtext, mharm, numVars, rsVars, bfVars,
                   parVars, objVars, kmVars, sigVars>>

Next == Encrypt \/ Decrypt \/ SplitBlob \/ Encode \/ Decode

WireNext == Encrypt \/ HarmCipher \/ Decrypt \/ Encode \/ HarmText \/ Decode

Spec == Init /\ [][Next]_vars

SpecWire == WireInit /\ [][WireNext]_vars

(***************************************************************************)
(* The password cipher of lib/rnet_bf.py: the key is the SHA-1 hex digest  *)
(* of the password, and the data is encrypted by Blowfish in counter mode. *)
(* hashlib and the blowfish module are not part of the sources at hand;    *)
(* they are modelled from their description: the digest is a number        *)
(* computed from the password, the block cipher turns the key and a        *)
(* counter value into CtrBlock keystream bytes, and encryptCTR /           *)
(* decryptCTR both combine the data with the keystream byte by byte.       *)
(***************************************************************************)
\* most calls of encrypt / decrypt in one run of the model
MaxCalls == 3

RECURSIVE XorBits(_, _, _)
XorBits(a, b, n) ==
    IF n = 0 THEN 0
    ELSE ((a + b) % 2) + 2 * XorBits(a \div 2, b \div 2, n - 1)

\* a ^ b on two bytes
Xor(a, b) == XorBits(a, b, 8)

\* h = hashlib.sha1(); h.update(key); h.hexdigest()
Sha1Hex(key) ==
    (40503 * (Len(key) + 1)
        + SumRange([i \in 1..Len(key) |-> (i * i + 7) * key[i]], 1, Len(key))) % 65536

\* bytes of one block of keystream
CtrBlock == 8

\* Blowfish(key).encrypt of the packed counter value: CtrBlock bytes
BlowfishBlock(key, ctr) ==
    [k \in 1..CtrBlock |->
        (key * (2 * k + 1) + (key \div 256) * 13 + (ctr + 1) * 101 * k + 37 * k * k) % 256]

\* the counter value the first block of keystream is made from, when the
\* counter goes on from the bytes that earlier calls have processed
initCTRResumes == bused \div CtrBlock

\* cipher.initCTR(): the counter starts at its default value
initCTR == 0

\* the j-th keystream byte (from 0) of a cipher whose counter started at iv
KeystreamByte(key, iv, j) ==
    BlowfishBlock(key, iv + (j \div CtrBlock))[(j % CtrBlock) + 1]

\* cipher.encryptCTR(data) on a cipher whose counter started at iv
encryptCTR(key, iv, data) ==
    [i \in 1..Len(data) |-> Xor(data[i], KeystreamByte(key, iv, i - 1))]

\* cipher.decryptCTR(data)
decryptCTR(key, iv, data) == encryptCTR(key, iv, data)

\* rnet_bf.encrypt(key, data)
bf_encrypt(key, data) == encryptCTR(Sha1Hex(key), initCTR, data)

\* the keystream is taken from the block after the one encrypt started at
bf_decryptNextBlock(key, edata) == decryptCTR(Sha1Hex(key), initCTR + 1, edata)

\* rnet_bf.decrypt(key, edata)
bf_decrypt(key, edata) == decryptCTR(Sha1Hex(key), initCTR, edata)

\* 'password' and 'a'
Passwords == { <<112, 97, 115, 115, 119, 111, 114, 100>>, <<97>> }

\* 'Secret message', the empty string, one null byte, and 17 bytes that take
\* three blocks of keystream
SecretMessage == <<83, 101, 99, 114, 101, 116, 32, 109, 101, 115, 115, 97, 103, 101>>
BfMessages == {SecretMessage, <<>>, <<0>>, Ramp(2 * CtrBlock + 1, 250, 1)}

BfInit ==
    /\ blog = <<>>
    /\ bused = 0
    /\ wpc = "idle"
    /\ wjobs = <<>>
    /\ wstep = <<>>
    /\ wcoder = <<>>
    /\ wout = <<>>
    /\ wres = Ok(<<>>)
    /\ cself = {}
    /\ ckeys = [pub |-> None, priv |-> None]
    /\ clog = <<>>
    /\ pub_key = None
    /\ priv_key = None
    /\ klog = <<>>
    /\ hooks = <<>>
    /\ slog = <<>>
    /\ sexc = Ok(<<>>)
    /\ npc = "idle"
    /\ ndata = <<>>
    /\ ntext = <<>>
    /\ nout = Ok(<<>>)
    /\ rpc = "idle"
    /\ chunk = <<>>
    /\ sent = <<>>
    /\ recv = <<>>
    /\ rout = Ok(<<>>)
    /\ pc = "idle"
    /\ mdata = <<>>
    /\ mpub = PubKey(1)
    /\ mpriv = PrivKey(1)
    /\ mcipher = <<>>
    /\ mtext = <<>>
    /\ mres = Ok(<<>>)
    /\ mtrace = <<>>
    /\ mharm = "none"

Call(op, key, given, out) == [op |-> op, key |-> key, given |-> given, out |-> out]

\* e = encrypt(password, data)
BfEncrypt ==
    /\ Len(blog) < MaxCalls
    /\ \E key \in Passwords, data \in BfMessages :
         /\ blog' = Append(blog, Call("encrypt", key, data, bf_encrypt(key, data)))
         /\ bused' = bused + Len(data)
    /\ UNCHANGED <<numVars, rsVars, msgVars, parVars, objVars, kmVars, sigVars>>

\* decrypt(password, e) on a ciphertext that an earlier call returned
BfDecrypt ==
    /\ Len(blog) < MaxCalls
    /\ \E key \in Passwords, i \in 1..Len(blog) :
         /\ blog[i].op = "encrypt"
         /\ blog' = Append(blog, Call("decrypt", key, blog[i].out,
                                      bf_decrypt(key, blog[i].out)))
         /\ bused' = bused + Len(blog[i].out)
    /\ UNCHANGED <<numVars, rsVars, msgVars, parVars, objVars, kmVars, sigVars>>

BfNext == BfEncrypt \/ BfDecrypt

SpecBF == BfInit /\ [][BfNext]_vars

(***************************************************************************)
(* Workers that run crypto.protect (or crypto.getprotected) for the chunks *)
(* (or codewords) of one message at the same time.  A call builds a coder  *)
(* object, hands it the symbols and takes what it returns; the steps of    *)
(* different calls interleave in any order.  The results are put together  *)
(* in the order of the chunks.                                             *)
(***************************************************************************)
\* one coder object kept for all calls
RSCoderShared(k) == 1

\* c = RSCoder(255, 127): the coder object of the k-th call, built by it
RSCoder(k) == k

ParMessages == {HelloWorld, Ramp(LongLen, 214, 1)}

ParInit ==
    /\ pc = "start"
    /\ mdata \in ParMessages
    /\ mpub \in {PubKey(k) : k \in KeyPairs}
    /\ mpriv = PrivKey(mpub.pair)
    /\ mcipher = <<>>
    /\ mtext = <<>>
    /\ mres = Ok(<<>>)
    /\ mtrace = <<>>
    /\ mharm = "none"
    /\ blog = <<>>
    /\ bused = 0
    /\ wpc = "idle"
    /\ wjobs = <<>>
    /\ wstep = <<>>
    /\ wcoder = <<>>
    /\ wout = <<>>
    /\ wres = Ok(<<>>)
    /\ cself = {}
    /\ ckeys = [pub |-> None, priv |-> None]
    /\ clog = <<>>
    /\ pub_key = None
    /\ priv_key = None
    /\ klog = <<>>
    /\ hooks = <<>>
    /\ slog = <<>>
    /\ sexc = Ok(<<>>)
    /\ npc = "idle"
    /\ ndata = <<>>
    /\ ntext = <<>>
    /\ nout = Ok(<<>>)
    /\ rpc = "idle"
    /\ chunk = <<>>
    /\ sent = <<>>
    /\ recv = <<>>
    /\ rout = Ok(<<>>)

\* the chunks of the message at hand are given to workers, one call each
StartEncode ==
    /\ wpc = "idle"
    /\ pc = "encoded"
    /\ wjobs' = mtrace[3].out
    /\ wstep' = [k \in 1..Len(mtrace[3].out) |-> "todo"]
    /\ wout' = [k \in 1..Len(mtrace[3].out) |-> Ok(<<>>)]
    /\ wpc' = "encode"
    /\ UNCHANGED <<wcoder, wres, numVars, rsVars, msgVars, bfVars,
                   objVars, kmVars, sigVars>>

\* the codewords of a text as they may arrive: unharmed, one of them with
\* ten or with more than RSCorrectable symbols altered, or the last one lost
Received(ws) ==
    {ws, SubSeq(ws, 1, Len(ws) - 1)}
        \cup {[ws EXCEPT ![k] = Altered(ws[k], ps, 129)] :
                 k \in 1..Len(ws), ps \in TenPositions}
        \cup {[ws EXCEPT ![k] = Altered(ws[k], ps, 1)] :
                 k \in 1..Len(ws), ps \in ManyPositions}

\* the codewords of the text that arrived are given to workers, one call each
StartDecode ==
    /\ wpc = "idle"
    /\ pc = "encoded"
    /\ \E ws \in Received(TextWords(mtext)) :
         /\ wjobs' = ws
         /\ wstep' = [k \in 1..Len(ws) |-> "todo"]
         /\ wout' = [k \in 1..Len(ws) |-> Ok(<<>>)]
    /\ wpc' = "decode"
    /\ UNCHANGED <<wcoder, wres, numVars, rsVars, msgVars, bfVars,
                   objVars, kmVars, sigVars>>

\* c = RSCoder(255, 127)
Build ==
    /\ wpc \in {"encode", "decode"}
    /\ \E k \in 1..Len(wjobs) :
         /\ wstep[k] = "todo"
         /\ wcoder' = (RSCoder(k) :> <<>>) @@ wcoder
         /\ wstep' = [wstep EXCEPT ![k] = "built"]
    /\ UNCHANGED <<wpc, wjobs, wout, wres, numVars, rsVars, msgVars, bfVars,
                   objVars, kmVars, sigVars>>

\* c.encode(data) / c.decode(data): the coder takes the symbols
Feed ==
    /\ wpc \in {"encode", "decode"}
    /\ \E k \in 1..Len(wjobs) :
         /\ wstep[k] = "built"
         /\ wcoder' = [wcoder EXCEPT ![RSCoder(k)] =
                          IF wpc = "encode" THEN RSPad(wjobs[k]) ELSE wjobs[k]]
         /\ wstep' = [wstep EXCEPT ![k] = "fed"]
    /\ UNCHANGED <<wpc, wjobs, wout, wres, numVars, rsVars, msgVars, bfVars,
                   objVars, kmVars, sigVars>>

\* c.encode(data) / c.decode(data): the coder returns or raises
Emit ==
    /\ wpc \in {"encode", "decode"}
    /\ \E k \in 1..Len(wjobs) :
         /\ wstep[k] = "fed"
         /\ wout' = [wout EXCEPT ![k] =
                        IF wpc = "encode"
                        THEN Ok(RSCodeword(wcoder[RSCoder(k)]))
                        ELSE RSDecode(wcoder[RSCoder(k)])]
         /\ wstep' = [wstep EXCEPT ![k] = "done"]
    /\ UNCHANGED <<wpc, wjobs, wcoder, wres, numVars, rsVars, msgVars, bfVars,
                   objVars, kmVars, sigVars>>

\* every call has ended: the results are put together in the order of the
\* chunks (out = out + numencode(...) / buf2 = buf2 + ...); the error of the
\* first codeword that could not be corrected is the error of the whole
Join ==
    /\ wpc \in {"encode", "decode"}
    /\ \A k \in 1..Len(wjobs) : wstep[k] = "done"
    /\ wres' =
         IF wpc = "encode"
         THEN Ok(Flatten([k \in 1..Len(wjobs) |-> numencode(wout[k].val)]))
         ELSE IF \E k \in 1..Len(wjobs) : wout[k].err # "none"
              THEN wout[CHOOSE k \in 1..Len(wjobs) :
                            /\ wout[k].err # "none"
                            /\ \A j \in 1..(k - 1) : wout[j].err = "none"]
              ELSE Ok(Flatten([k \in 1..Len(wjobs) |-> wout[k].val]))
    /\ wpc' = IF wpc = "encode" THEN "encode_joined" ELSE "decode_joined"
    /\ UNCHANGED <<wjobs, wstep, wcoder, wout, numVars, rsVars, msgVars, bfVars,
                   objVars, kmVars, sigVars>>

ParNext ==
    Encode \/ StartEncode \/ StartDecode \/ Build \/ Feed \/ Emit \/ Join

SpecPar == ParInit /\ [][ParNext]_vars

(***************************************************************************)
(* A caller that builds one crypto object (c = crypto()) and one key pair  *)
(* and makes call after call with them.  A method is given the object and  *)
(* its arguments; the model states what the object and the key are after   *)
(* the call and what the call returned or raised.  The class has no        *)
(* __init__ and no method assigns an attribute of self.                    *)
(***************************************************************************)
\* number of calls the caller makes
MaxCodecCalls == 3

\* decode keeps what it last returned on the object and returns that when
\* it is there
cryptoKeepsLast(self, name, given, key, s) ==
    IF name = "decode"
    THEN LET kept == {a \in self : a[1] = "last"}
             out == IF kept = {} THEN decode(given, key)
                    ELSE (CHOOSE a \in kept : TRUE)[2]
         IN  [self |-> {<<"last", out>>}, key |-> key, out |-> out]
    ELSE [self |-> self, key |-> key,
          out |-> IF name = "encode" THEN Ok(encode(given, key, s))
                  ELSE Raise("zlib.error")]

\* class crypto: the method called by name
crypto(self, name, given, key, s) ==
    [self |-> self,
     key |-> key,
     out |-> CASE name = "encode" -> Ok(encode(given, key, s))
               [] name = "decode" -> decode(given, key)
               [] name = "numencode" -> Ok(numencode(given))
               [] name = "numdecode" -> numdecode(given)
               [] name = "compress" -> Ok(compress(given))
               [] name = "uncompress" -> uncompress(given)
               [] name = "protect" -> Ok(protect(given))
               [] name = "getprotected" -> getprotected(given)
               [] name = "encrypt" -> Ok(encrypt(given, key, s))
               [] name = "decrypt" -> decrypt(given, key)]

\* a text with a token that is no number, and a text without tokens
BadText == <<"0", "7", "2", " ", "x", " ">>
EmptyText == <<>>

\* stage calls that return and stage calls that raise
StageCalls ==
    { <<"numencode", <<0, 255>>, "pub">>,
      <<"uncompress", <<1, 2, 3>>, "pub">>,
      <<"getprotected", <<1, 2, 3>>, "pub">>,
      <<"decrypt", <<StreamVersion, 9>>, "priv">> }

CodecInit ==
    /\ cself = {}
    /\ ckeys = [pub |-> PubKey(1), priv |-> PrivKey(1)]
    /\ clog = <<>>
    /\ wpc = "idle"
    /\ wjobs = <<>>
    /\ wstep = <<>>
    /\ wcoder = <<>>
    /\ wout = <<>>
    /\ wres = Ok(<<>>)
    /\ pub_key = None
    /\ priv_key = None
    /\ klog = <<>>
    /\ hooks = <<>>
    /\ slog = <<>>
    /\ sexc = Ok(<<>>)
    /\ blog = <<>>
    /\ bused = 0
    /\ npc = "idle"
    /\ ndata = <<>>
    /\ ntext = <<>>
    /\ nout = Ok(<<>>)
    /\ rpc = "idle"
    /\ chunk = <<>>
    /\ sent = <<>>
    /\ recv = <<>>
    /\ rout = Ok(<<>>)
    /\ pc = "idle"
    /\ mdata = <<>>
    /\ mpub = PubKey(1)
    /\ mpriv = PrivKey(1)
    /\ mcipher = <<>>
    /\ mtext = <<>>
    /\ mres = Ok(<<>>)
    /\ mtrace = <<>>
    /\ mharm = "none"

\* one call of a method of c: the call is written down with the object and
\* the keys before it and with what the method returned; the object and the
\* key are what the method left of them
Made(name, given, which, s) ==
    /\ clog' = Append(clog, [op |-> name, given |-> given, key |-> ckeys[which],
                             self |-> cself, keys |-> ckeys,
                             res |-> crypto(cself, name, given, ckeys[which], s)])
    /\ cself' = clog'[Len(clog')].res.self
    /\ ckeys' = [ckeys EXCEPT ![which] = clog'[Len(clog')].res.key]

\* c.encode(data, pub_key)
CallEncode ==
    /\ Len(clog) < MaxCodecCalls
    /\ \E s \in SessionKeys : Made("encode", HelloWorld, "pub", s)
    /\ UNCHANGED <<numVars, rsVars, msgVars, bfVars, parVars, kmVars, sigVars>>

\* c.decode(text, priv_key) on a text that an earlier call returned, on a
\* text that is no message, or on no text at all
CallDecode ==
    /\ Len(clog) < MaxCodecCalls
    /\ \E text \in {clog[i].res.out.val : i \in {j \in 1..Len(clog) : clog[j].op = "encode"}}
                        \cup {BadText, EmptyText} :
         Made("decode", text, "priv", 1)
    /\ UNCHANGED <<numVars, rsVars, msgVars, bfVars, parVars, kmVars, sigVars>>

\* a call of one of the stage functions
CallStage ==
    /\ Len(clog) < MaxCodecCalls
    /\ \E c \in StageCalls : Made(c[1], c[2], c[3], 1)
    /\ UNCHANGED <<numVars, rsVars, msgVars, bfVars, parVars, kmVars, sigVars>>

CodecNext == CallEncode \/ CallDecode \/ CallStage

SpecCodec == CodecInit /\ [][CodecNext]_vars

(***************************************************************************)
(* The key manager, rnet_rsa.RSA.  A key object is a key of a pair and the *)
(* call that made the object.  The rsa package is not part of the sources  *)
(* at hand: load_pkcs1 returns the key that a well-formed encoding of the  *)
(* right kind holds and raises on anything else; newkeys returns the two   *)
(* keys of one pair.                                                       *)
(***************************************************************************)
\* the PKCS#1 encoding of a key, and a text that is no encoding of a key
Pem(key) == [pem |-> key.kind, pair |-> key.pair]
Malformed == [pem |-> "malformed", pair |-> 0]

PubEncodings == {Pem(PubKey(k)) : k \in KeyPairs} \cup {Malformed}
PrivEncodings == {Pem(PrivKey(k)) : k \in KeyPairs} \cup {Malformed}

\* the key object that call number id made
KeyObject(kind, pair, id) == [kind |-> kind, pair |-> pair, id |-> id]

\* rsa.key.PublicKey.load_pkcs1 / rsa.key.PrivateKey.load_pkcs1
load_pkcs1(kind, enc, id) ==
    IF enc.pem = kind THEN Ok(KeyObject(kind, enc.pair, id)) ELSE Raise("KeyError")

\* rsa.newkeys(1536): the public and the private key of a new pair
newkeys(pair, id) == <<KeyObject("public", pair, id), KeyObject("private", pair, id)>>

\* RSA._loadRSA(pub, priv): the fields and the error after the call
_loadRSA(self, pub, priv, id) ==
    LET p == load_pkcs1("private", priv, id)
        q == load_pkcs1("public", pub, id)
    IN  IF p.err # "none"
        THEN [pub_key |-> self.pub_key, priv_key |-> self.priv_key, err |-> p.err]
        ELSE IF q.err # "none"
        THEN [pub_key |-> self.pub_key, priv_key |-> p.val, err |-> q.err]
        ELSE [pub_key |-> q.val, priv_key |-> p.val, err |-> "none"]

\* RSA._generateRSA(): the fields after the call
_generateRSA(self, pair, id) ==
    [pub_key |-> newkeys(pair, id)[1], priv_key |-> newkeys(pair, id)[2],
     err |-> "none"]

\* RSA.__init__
KeysInit ==
    /\ priv_key = None
    /\ pub_key = None
    /\ klog = <<>>
    /\ cself = {}
    /\ ckeys = [pub |-> None, priv |-> None]
    /\ clog = <<>>
    /\ wpc = "idle"
    /\ wjobs = <<>>
    /\ wstep = <<>>
    /\ wcoder = <<>>
    /\ wout = <<>>
    /\ wres = Ok(<<>>)
    /\ hooks = <<>>
    /\ slog = <<>>
    /\ sexc = Ok(<<>>)
    /\ blog = <<>>
    /\ bused = 0
    /\ npc = "idle"
    /\ ndata = <<>>
    /\ ntext = <<>>
    /\ nout = Ok(<<>>)
    /\ rpc = "idle"
    /\ chunk = <<>>
    /\ sent = <<>>
    /\ recv = <<>>
    /\ rout = Ok(<<>>)
    /\ pc = "idle"
    /\ mdata = <<>>
    /\ mpub = PubKey(1)
    /\ mpriv = PrivKey(1)
    /\ mcipher = <<>>
    /\ mtext = <<>>
    /\ mres = Ok(<<>>)
    /\ mtrace = <<>>
    /\ mharm = "none"

\* a call on the key manager: its arguments, the fields before it and
\* after it, and the error it raised
KeyCall(op, pub, priv, before, after) ==
    [op |-> op, pub |-> pub, priv |-> priv,
     before |-> before, after |-> [pub_key |-> after.pub_key, priv_key |-> after.priv_key],
     err |-> after.err]

GenerateRSA ==
    /\ Len(klog) < MaxCalls
    /\ \E k \in KeyPairs :
         LET self == [pub_key |-> pub_key, priv_key |-> priv_key]
             r == _generateRSA(self, k, Len(klog) + 1)
         IN  /\ pub_key' = r.pub_key
             /\ priv_key' = r.priv_key
             /\ klog' = Append(klog, KeyCall("_generateRSA", None, None, self, r))
    /\ UNCHANGED <<numVars, rsVars, msgVars, bfVars, parVars, objVars, sigVars>>

LoadRSA ==
    /\ Len(klog) < MaxCalls
    /\ \E pub \in PubEncodings, priv \in PrivEncodings :
         LET self == [pub_key |-> pub_key, priv_key |-> priv_key]
             r == _loadRSA(self, pub, priv, Len(klog) + 1)
         IN  /\ pub_key' = r.pub_key
             /\ priv_key' = r.priv_key
             /\ klog' = Append(klog, KeyCall("_loadRSA", pub, priv, self, r))
    /\ UNCHANGED <<numVars, rsVars, msgVars, bfVars, parVars, objVars, sigVars>>

KeysNext == GenerateRSA \/ LoadRSA

SpecKeys == KeysInit /\ [][KeysNext]_vars

(***************************************************************************)
(* The signal handler of the application framework,                        *)
(* cement.core.foundation.cement_signal_handler.  The hook module is not   *)
(* part of the sources at hand: hook.run(name, *args) is modelled as a     *)
(* generator that calls the callbacks registered on the hook one after     *)
(* another, in the order they run in, and yields what each returns; a      *)
(* callback is code of the application and may raise, and what it raises   *)
(* leaves the generator.                                                   *)
(***************************************************************************)
\* number of callbacks registered on the 'signal' hook
MaxHooks == 3

\* catch_signals = [signal.SIGTERM, signal.SIGINT]
SIGINT == 2
SIGTERM == 15
catch_signals == {SIGTERM, SIGINT}

\* callbacks of the application: two that return and one that raises
Callbacks ==
    { [name |-> "flush", raises |-> FALSE],
      [name |-> "notify", raises |-> FALSE],
      [name |-> "cleanup", raises |-> TRUE] }

\* the frame a signal is caught in
Frames == {"frame"}

\* hook.run('signal', signum, frame): the calls it makes before the loop
\* that consumes it ends, and the error that leaves it
hook_run(registered, signum, frame) ==
    LET bad == {i \in 1..Len(registered) : registered[i].raises}
        n == IF bad = {} THEN Len(registered)
             ELSE CHOOSE i \in bad : \A j \in bad : i <= j
    IN  [calls |-> [i \in 1..n |-> [callback |-> registered[i].name,
                                    signum |-> signum, frame |-> frame]],
         err |-> IF bad = {} THEN "none" ELSE "HookError"]

\* cement_signal_handler(signum, frame): the callbacks run and what is raised
cement_signal_handler(registered, signum, frame) ==
    LET r == hook_run(registered, signum, frame)
    IN  [calls |-> r.calls,
         exc |-> IF r.err # "none" THEN [err |-> r.err, val |-> <<signum, frame>>]
                 ELSE [err |-> "CaughtSignal", val |-> <<signum, frame>>]]

\* hook.define('signal'): no callback is registered
SignalInit ==
    /\ hooks = <<>>
    /\ slog = <<>>
    /\ sexc = Ok(<<>>)
    /\ priv_key = None
    /\ pub_key = None
    /\ klog = <<>>
    /\ cself = {}
    /\ ckeys = [pub |-> None, priv |-> None]
    /\ clog = <<>>
    /\ wpc = "idle"
    /\ wjobs = <<>>
    /\ wstep = <<>>
    /\ wcoder = <<>>
    /\ wout = <<>>
    /\ wres = Ok(<<>>)
    /\ blog = <<>>
    /\ bused = 0
    /\ npc = "idle"
    /\ ndata = <<>>
    /\ ntext = <<>>
    /\ nout = Ok(<<>>)
    /\ rpc = "idle"
    /\ chunk = <<>>
    /\ sent = <<>>
    /\ recv = <<>>
    /\ rout = Ok(<<>>)
    /\ pc = "idle"
    /\ mdata = <<>>
    /\ mpub = PubKey(1)
    /\ mpriv = PrivKey(1)
    /\ mcipher = <<>>
    /\ mtext = <<>>
    /\ mres = Ok(<<>>)
    /\ mtrace = <<>>
    /\ mharm = "none"

\* hook.register('signal', callback), while the application is set up
Register ==
    /\ Len(hooks) < MaxHooks
    /\ sexc.val = <<>>
    /\ \E cb \in Callbacks : hooks' = Append(hooks, cb)
    /\ UNCHANGED <<slog, sexc, numVars, rsVars, msgVars, bfVars, parVars,
                   objVars, kmVars>>

\* a signal of catch_signals arrives and the handler runs
CatchSignal ==
    /\ \E signum \in catch_signals, frame \in Frames :
         /\ slog' = cement_signal_handler(hooks, signum, frame).calls
         /\ sexc' = cement_signal_handler(hooks, signum, frame).exc
    /\ UNCHANGED <<hooks, numVars, rsVars, msgVars, bfVars, parVars,
                   objVars, kmVars>>

SignalNext == Register \/ CatchSignal

SpecSignal == SignalInit /\ [][SignalNext]_vars

NumNext ==NumEncode \/ TypeText \/ EncodeText \/ NumDecode

RSNext == Protect \/ AlterBurst \/ AlterSpread \/ AlterInto \/ GetProtected

SpecNum == NumInit /\ [][NumNext]_vars

SpecRS == RSInit /\ [][RSNext]_vars

\* no word of the model lies within RSCorrectable symbols of two codewords
MinDistance ==
    /\ rpc \in {"protected", "altered"} => Cardinality(RSNear(recv)) <= 1
    /\ pc = "encoded" =>
         LET ws == chunks(numdecode(mtext).val, CodewordBytes)
         IN  \A k \in 1..Len(ws) : Cardinality(RSNear(ws[k])) <= 1

(***************************************************************************)
(* Reading a text the way the wire format describes it: tokens separated   *)
(* by any run of whitespace.                                               *)
(***************************************************************************)
NotEmpty(x) == x # <<>>
NotNewline(ch) == ch # "\n"

\* the whitespace-separated tokens of a text, in order
WsTokens(text) ==
    SelectSeq(Split([i \in 1..Len(text) |->
                        IF text[i] \in Whitespace THEN " " ELSE text[i]], " "),
              NotEmpty)

\* the same tokens, each followed by one space
SingleSpaced(toks) == Flatten([i \in 1..Len(toks) |-> toks[i] \o <<" ">>])

IsThreeDigits(tok) == Len(tok) = 3 /\ \A i \in 1..3 : tok[i] \in DigitSet

\* a numeric token: an optional sign and one or more decimal digits
TokDigits(tok) == IF tok[1] \in {"+", "-"} THEN Tail(tok) ELSE tok
IsNumeric(tok) ==
    /\ Len(TokDigits(tok)) > 0
    /\ \A i \in 1..Len(TokDigits(tok)) : TokDigits(tok)[i] \in DigitSet

\* a numeric token whose value is negative or above 255
OutOfRange(tok) ==
    LET sig == Significant(TokDigits(tok))
    IN  \/ Len(sig) > 3
        \/ Len(sig) > 0 /\ tok[1] = "-"
        \/ Len(sig) = 3 /\ DecimalValue(sig, 3) > 255

BadToken(tok) == ~IsNumeric(tok) \/ OutOfRange(tok)

\* token counts of the lines of one numencode call over n bytes: full lines
\* of WrapCount + 1 tokens, then the line holding the remainder
CallLines(n) ==
    [i \in 1..(n \div (WrapCount + 1)) |-> WrapCount + 1] \o <<n % (WrapCount + 1)>>

(***************************************************************************)
(* Claims.                                                                 *)
(***************************************************************************)

\* C1: for every byte sequence b and every matching key pair,
\* decode(encode(b, pub), priv) returns exactly b.
C1_DecodeInvertsEncode ==
    (pc = "decoded" /\ mpriv.pair = mpub.pair /\ ~IsUnicode(mdata)) => mres = Ok(mdata)

\* C2: getprotected(protect(chunk)) returns exactly chunk when the codeword is
\* not altered, whatever the chunk's length and byte values.
C2_UnalteredCodewordDecodes ==
    (rpc = "decoded" /\ recv = sent) => rout = Ok(chunk)

\* C3: a codeword altered in at least one and at most 64 of its 255 symbols
\* still decodes to exactly the original chunk.
C3_CorrectsUpTo64 ==
    (rpc = "decoded" /\ Distance(sent, recv) \in 1..64) => rout = Ok(chunk)

C5_CodewordIs255Bytes ==
    (rpc \in {"protected", "altered", "decoded"} /\ Len(chunk) \in 0..127) =>
        Len(sent) = 255

C5_Witness == rpc = "protected" /\ Len(chunk) = 0 /\ Len(sent) = 255

\* C6: numdecode(numencode(b)) returns exactly b for every byte sequence b.
C6_NumRoundTrip == npc = "roundtrip" => nout = Ok(ndata)

C6_Witness ==
    /\ npc = "roundtrip"
    /\ Len(ndata) > 2 * (WrapCount + 1)
    /\ \E i, j \in 1..Len(ndata) : ndata[i] = 0 /\ ndata[j] = 255
    /\ nout = Ok(ndata)

\* C7: a text of 3-digit tokens decodes to the same bytes however its tokens
\* are separated: as the same tokens separated by single spaces do.
C7_AnyWhitespaceSeparates ==
    (npc = "decoded" /\ \A i \in 1..Len(WsTokens(ntext)) : IsThreeDigits(WsTokens(ntext)[i]))
        => nout = numdecode(SingleSpaced(WsTokens(ntext)))

C9_TextShape ==
    npc \in {"encoded", "message"} =>
        LET toks == WsTokens(ntext)
            flat == SelectSeq(ntext, NotNewline)
            lines == Split(ntext, "\n")
            calls == IF npc = "message" THEN chunks(ndata, CodewordBytes) ELSE <<ndata>>
        IN  /\ Len(toks) = Len(ndata)
            /\ \A i \in 1..Len(toks) :
                 /\ IsThreeDigits(toks[i])
                 /\ 100 * DigitVal(toks[i][1]) + 10 * DigitVal(toks[i][2])
                        + DigitVal(toks[i][3]) = ndata[i]
                 /\ ndata[i] \in 0..255
            /\ flat = SingleSpaced(toks)
            /\ [i \in 1..Len(lines) |-> Len(WsTokens(lines[i]))]
                 = Flatten([k \in 1..Len(calls) |-> CallLines(Len(calls[k]))]) \o <<0>>

C9_Witness ==
    /\ npc = "message"
    /\ Len(ndata) = 2 * 255
    /\ Len(WsTokens(ntext)) = 2 * 255

\* C10: crypto.decrypt(crypto.encrypt(b, pub), priv) returns exactly b for
\* every matching key pair and every b, its blocks in their original order.
C10_DecryptInvertsEncrypt ==
    (pc = "decrypted" /\ mpriv.pair = mpub.pair /\ ~IsUnicode(mdata)) => mres = Ok(mdata)

C10_Witness ==
    /\ pc = "decrypted"
    /\ mpriv.pair = mpub.pair
    /\ Len(mdata) > 2 * BlockBytes
    /\ mres = Ok(mdata)

\* C11: decrypting (crypto.decrypt, and crypto.decode end to end) with the
\* private key of a key pair unrelated to the public key that encrypted the
\* message raises DecryptionError and never returns a plaintext.
C11_UnrelatedKeyRaises ==
    (pc \in {"decrypted", "decoded"} /\ mpriv.pair # mpub.pair)
        => mres = Raise("DecryptionError")

StageRank(name) ==
    CHOOSE r \in 1..5 :
        <<"numdecode", "chunks", "getprotected", "uncompress", "decrypt">>[r] = name

\* C13: when a stage of crypto.decode fails (digit parsing, correction of any
\* codeword, decompression, decryption), the failing call is the last call
\* decode makes, no call of a later stage has been made, decode raises that
\* stage's error and returns nothing; when no stage fails decode returns.
C13_AbortsAtFirstFailure ==
    pc \in {"decoded", "regained"} =>
        LET bad == {i \in 1..Len(mtrace) : mtrace[i].err # "none"}
            last == mtrace[Len(mtrace)]
        IN  /\ bad = {} => mres = Ok(last.out) /\ last.stage = "decrypt"
            /\ bad # {} =>
                  /\ bad = {Len(mtrace)}
                  /\ \A i \in 1..Len(mtrace) :
                        StageRank(mtrace[i].stage) <= StageRank(last.stage)
                  /\ mres = Raise(last.err)
                  /\ mres.val = <<>>

\* the second codeword of a message cannot be corrected
C13_Witness ==
    /\ pc = "regained"
    /\ mharm = "many"
    /\ Len(mtrace) = 4
    /\ mtrace[3].stage = "getprotected" /\ mtrace[3].err = "none"
    /\ mtrace[4].stage = "getprotected" /\ mtrace[4].err = "UncorrectableBlock"
    /\ mres = Raise("UncorrectableBlock")

\* C14: for "Hello world" and any plaintext, when the text of crypto.encode
\* is altered at 10 symbol positions that all lie in one 255-byte codeword,
\* crypto.decode with the matching private key returns the original
\* plaintext exactly.
C14_TenAlteredSymbolsDecode ==
    (pc = "regained" /\ mharm = "ten") => mres = Ok(InfileBytes(mdata))

\* C15: for every unicode text t, crypto.encode encrypts the UTF-8 bytes of t,
\* and crypto.decode of the result with the matching private key returns
\* exactly the UTF-8 bytes of t.
C15_UnicodeTextPreserved ==
    /\ (pc = "encoded" /\ IsUnicode(mdata)) =>
          \E s \in SessionKeys : mtrace[1].out = EncryptBigfile(Utf8(mdata), mpub, s)
    /\ (pc = "decoded" /\ mpriv.pair = mpub.pair /\ IsUnicode(mdata)) =>
          mres = Ok(Utf8(mdata))

\* C16: for every password p and byte string x, rnet_bf.decrypt(p, e) returns
\* exactly x when e is what rnet_bf.encrypt(p, x) returned, whatever calls of
\* encrypt or decrypt were made before or in between.
C16_BfDecryptInvertsEncrypt ==
    \A j \in 1..Len(blog) : \A i \in 1..(j - 1) :
        (/\ blog[j].op = "decrypt" /\ blog[i].op = "encrypt"
         /\ blog[j].key = blog[i].key /\ blog[j].given = blog[i].out)
            => blog[j].out = blog[i].given

C16_Witness ==
    /\ Len(blog) = 3
    /\ blog[1].op = "encrypt" /\ blog[1].given = SecretMessage
    /\ blog[2].op = "encrypt" /\ blog[2].key # blog[1].key
    /\ blog[3].op = "decrypt" /\ blog[3].key = blog[1].key
    /\ blog[3].given = blog[1].out /\ blog[3].given # SecretMessage
    /\ blog[3].out = SecretMessage

\* C17: the keystream of rnet_bf.encrypt depends on the password only: for
\* two calls encrypt(p, m1) and encrypt(p, m2), byte i of the one ciphertext
\* XOR byte i of the other equals m1[i] XOR m2[i] for every i within both
\* lengths, and the same message gives the same ciphertext on every call.
C17_KeystreamReused ==
    \A i, j \in 1..Len(blog) :
        (blog[i].op = "encrypt" /\ blog[j].op = "encrypt" /\ blog[i].key = blog[j].key)
            => /\ Len(blog[i].out) = Len(blog[i].given)
               /\ \A k \in 1..Len(blog[i].given) :
                     k <= Len(blog[j].given) =>
                        Xor(blog[i].out[k], blog[j].out[k])
                            = Xor(blog[i].given[k], blog[j].given[k])
               /\ blog[i].given = blog[j].given => blog[i].out = blog[j].out

C17_Witness ==
    /\ Len(blog) = 3
    /\ \A i \in 1..3 : blog[i].op = "encrypt" /\ blog[i].key = blog[1].key
    /\ blog[1].given = SecretMessage
    /\ Len(blog[2].given) > 2 * CtrBlock
    /\ blog[3].given = SecretMessage
    /\ blog[3].out = blog[1].out
    /\ \A k \in 1..Len(SecretMessage) :
          Xor(blog[1].out[k], blog[2].out[k]) = Xor(blog[1].given[k], blog[2].given[k])

\* C18: crypto.encode calls encrypt, compress, chunks, then protect and
\* numencode for each chunk, and crypto.decode calls numdecode, chunks,
\* getprotected for each codeword, uncompress, decrypt; every call is given
\* what the call of the stage before it in the same encode / decode call
\* returned, and what encode / decode returns is what its last stage made.
C18_StagesInOrder ==
    /\ pc = "encoded" =>
          LET t == mtrace
              n == Len(t[3].out)
          IN  /\ t[1].stage = "encrypt" /\ t[1].given = mdata
              /\ t[2].stage = "compress" /\ t[2].given = t[1].out
              /\ t[3].stage = "chunks" /\ t[3].given = t[2].out
              /\ Len(t) = 3 + 2 * n
              /\ \A k \in 1..n :
                    /\ t[2 + 2 * k].stage = "protect"
                    /\ t[2 + 2 * k].given = t[3].out[k]
                    /\ t[3 + 2 * k].stage = "numencode"
                    /\ t[3 + 2 * k].given = t[2 + 2 * k].out
              /\ mtext = Flatten([k \in 1..n |-> t[3 + 2 * k].out])
    /\ pc = "decoded" =>
          LET t == mtrace
              last == t[Len(t)]
          IN  /\ t[1].stage = "numdecode" /\ t[1].given = mtext
              /\ Len(t) >= 2 =>
                    /\ t[1].err = "none"
                    /\ t[2].stage = "chunks" /\ t[2].given = t[1].out
              /\ \A i \in 3..Len(t) :
                    /\ t[i].stage \in {"getprotected", "uncompress", "decrypt"}
                    /\ t[i - 1].err = "none"
                    /\ t[i].stage = "getprotected" =>
                          /\ i - 2 <= Len(t[2].out)
                          /\ t[i].given = t[2].out[i - 2]
                          /\ \A j \in 3..(i - 1) : t[j].stage = "getprotected"
                    /\ t[i].stage = "uncompress" =>
                          /\ i = Len(t[2].out) + 3
                          /\ \A j \in 3..(i - 1) : t[j].stage = "getprotected"
                          /\ t[i].given = Flatten([k \in 1..Len(t[2].out) |-> t[2 + k].out])
                    /\ t[i].stage = "decrypt" =>
                          /\ i = Len(t)
                          /\ t[i - 1].stage = "uncompress"
                          /\ t[i].given = t[i - 1].out
              /\ mres.err = "none" => last.stage = "decrypt" /\ mres.val = last.out

C18_Witness ==
    /\ pc = "decoded"
    /\ Len(mtrace) = 6
    /\ mtrace[3].stage = "getprotected" /\ mtrace[4].stage = "getprotected"
    /\ mtrace[6].stage = "decrypt"
    /\ mres = Ok(mdata)

\* the entry of the chunks call in the trace of encode or of chunks alone
ChunksCall == IF pc = "split" THEN mtrace[1] ELSE mtrace[3]

\* C19: chunks(blob, 127) yields contiguous non-empty slices in order whose
\* concatenation is blob; every slice has at most 127 bytes, only the last
\* may have fewer, and an empty blob yields no slice.
C19_ChunksPartitionBlob ==
    pc \in {"split", "encoded"} =>
        LET blob == ChunksCall.given
            cs == ChunksCall.out
        IN  /\ Flatten(cs) = blob
            /\ \A k \in 1..Len(cs) :
                  /\ Len(cs[k]) \in 1..127
                  /\ k < Len(cs) => Len(cs[k]) = 127
                  /\ cs[k] = SubSeq(blob, 127 * (k - 1) + 1, 127 * (k - 1) + Len(cs[k]))
            /\ Len(blob) = 0 => Len(cs) = 0

C19_Witness ==
    /\ pc = "split"
    /\ Len(mtrace[1].given) = 2 * 127 + 1
    /\ Len(mtrace[1].out) = 3
    /\ Len(mtrace[1].out[3]) = 1

\* C20: for a compressed blob of L bytes the text of crypto.encode carries
\* exactly 255 * ceil(L / 127) bytes, the i-th block of 255 bytes being
\* protect of the i-th chunk; crypto.decode gives the i-th block of 255
\* bytes to the i-th getprotected call and concatenates what the calls
\* return in that order.
C20_OneCodewordPerChunk ==
    /\ pc = "encoded" =>
          LET blob == mtrace[3].given
              cs == mtrace[3].out
              buf == numdecode(mtext).val
          IN  /\ Len(cs) = (Len(blob) + 126) \div 127
              /\ Len(buf) = 255 * Len(cs)
              /\ \A i \in 1..Len(cs) :
                    SubSeq(buf, 255 * (i - 1) + 1, 255 * i) = protect(cs[i])
    /\ (pc = "decoded" /\ mtrace[Len(mtrace)].stage \in {"uncompress", "decrypt"}) =>
          LET buf == numdecode(mtext).val
              n == Len(buf) \div 255
              z == CHOOSE i \in 1..Len(mtrace) : mtrace[i].stage = "uncompress"
          IN  /\ z = n + 3
              /\ \A i \in 1..n :
                    /\ mtrace[2 + i].stage = "getprotected"
                    /\ mtrace[2 + i].given = SubSeq(buf, 255 * (i - 1) + 1, 255 * i)
              /\ mtrace[z].given = Flatten([i \in 1..n |-> mtrace[2 + i].out])

C20_Witness ==
    /\ pc = "encoded"
    /\ Len(mtrace[3].out) = 2
    /\ mtrace[3].out[1] # mtrace[3].out[2]
    /\ Len(numdecode(mtext).val) = 2 * 255

C23_MismatchedPairRejected ==
    /\ \A i \in 1..Len(klog) :
          (/\ klog[i].op = "_loadRSA"
           /\ \/ klog[i].pub = Malformed
              \/ klog[i].priv = Malformed
              \/ klog[i].pub.pair # klog[i].priv.pair)
              => klog[i].err = "KeyError"
    /\ (pub_key # None /\ priv_key # None) => pub_key.pair = priv_key.pair

\* C24: after any calls of _generateRSA and _loadRSA, pub_key and priv_key
\* are both None or were both set by the same call, and a call of _loadRSA
\* that raises leaves both as they were before the call.
C24_KeysSetTogether ==
    /\ \/ pub_key = None /\ priv_key = None
       \/ pub_key # None /\ priv_key # None /\ pub_key.id = priv_key.id
    /\ \A i \in 1..Len(klog) :
          klog[i].err # "none" => klog[i].after = klog[i].before

\* C25: crypto.decode gives getprotected only blocks of exactly 255 bytes,
\* and a text whose tokens are not a positive multiple of 255 in number is
\* rejected with an error.
C25_OnlyWholeCodewordsDecoded ==
    pc \in {"decoded", "regained"} =>
        /\ \A i \in 1..Len(mtrace) :
              mtrace[i].stage = "getprotected" =>
                  Len(mtrace[i].given) = CodewordBytes
        /\ (/\ mtrace[1].err = "none"
            /\ \/ Len(mtrace[1].out) = 0
               \/ Len(mtrace[1].out) % CodewordBytes # 0)
              => mres.err # "none"

\* C26: on every caught signal cement_signal_handler runs every callback
\* registered on the 'signal' hook with (signum, frame), in order, and then
\* raises CaughtSignal(signum, frame); it never returns normally.
C26_HooksThenCaughtSignal ==
    sexc.val # <<>> =>
        /\ sexc.err = "CaughtSignal"
        /\ Len(slog) = Len(hooks)
        /\ \A i \in 1..Len(hooks) :
              slog[i] = [callback |-> hooks[i].name,
                         signum |-> sexc.val[1], frame |-> sexc.val[2]]

====
